---- MODULE Spec2Model ----
(***************************************************************************)
(* Model of gt4sd_trainer/hf_pl/models/core.py: the five language-model    *)
(* training modules (LMModule, MLMModule, CGMModule, CLMModule, PLMModule),*)
(* their construction through LM_MODULE_FACTORY and the four hooks of      *)
(* BaseLightningModule (forward, training_step, validation_step,           *)
(* configure_optimizers).                                                  *)
(*                                                                         *)
(* Python values are records [t |-> type name, v |-> printed value], so    *)
(* that isinstance(x, float) and "is not None" are tests the model makes   *)
(* as the code makes them.  A raised exception is the field `error` of the *)
(* running object: once it is set, no later statement of the handler has   *)
(* any effect (there is no try/except anywhere in core.py).                *)
(***************************************************************************)
EXTENDS Integers, Sequences, FiniteSets, TLC

\* ------------------------------------------------------------------ bounds
MaxSteps == 2            \* training_step / validation_step calls explored
MaxOptimizerCalls == 2   \* successful configure_optimizers calls explored

\* ----------------------------------------------------------- Python values
None == [t |-> "NoneType", v |-> "None"]
PyStr(s) == [t |-> "str", v |-> s]
PyFloat(s) == [t |-> "float", v |-> s]
PyInt(s) == [t |-> "int", v |-> s]
NotPassed == [t |-> "absent", v |-> ""]

\* isinstance(x, float): an int (or a str, or None) is not a float
isinstance_float(x) == x.t = "float"

\* --------------------------------------------- the external hub (environment)
\* Pretrained checkpoints the model loader can resolve, with the row count of
\* their embedding table.
ModelHub == [m3 |-> 3, m6 |-> 6]
\* Architecture configurations the config loader can resolve (vocab_size).
ConfigHub == [c4 |-> 4]
\* Tokenizers the tokenizer loader can resolve: their base vocabulary and the
\* separator / padding token they define ("" when they define none).
TokenizerHub ==
    [t3 |-> [vocab |-> {"a", "b", "c"}, sep_token |-> "", pad_token |-> ""],
     t5 |-> [vocab |-> {"a", "b", "c", "d", "<|sep|>"},
             sep_token |-> "<|sep|>", pad_token |-> ""]]

\* An identifier is resolvable when it is a string naming an entry of the hub;
\* None never is.
Resolvable(hub, name) == name.t = "str" /\ name.v \in DOMAIN hub

\* ------------------------------------------------------------ object shapes
NoError == [type |-> "", origin |-> "", msg |-> ""]
NoModel == [cls |-> "", weights |-> "", source |-> None, cache_dir |-> None,
            rows |-> 0]
NoConfig == [source |-> None, vocab_size |-> 0]
NoTokenizer == [source |-> None, vocab |-> {}, sep_token |-> "",
                pad_token |-> ""]
NoModule == [cls |-> "", model_args |-> <<>>, cache_dir |-> None,
             model |-> NoModel, tokenizer |-> NoTokenizer,
             config |-> NoConfig, error |-> NoError,
             calls |-> <<>>, infos |-> <<>>]

Raised(self) == self.error # NoError
\* the error an external loader raises; core.py never catches or wraps it
ExternalError(call) == [type |-> "ExternalError", origin |-> call.fn,
                        msg |-> call.arg.v]
ValueError(msg) == [type |-> "ValueError", origin |-> "configure_optimizers",
                    msg |-> msg]
Call(fn, arg, cache_dir, kwargs, n) ==
    [fn |-> fn, arg |-> arg, cache_dir |-> cache_dir, kwargs |-> kwargs,
     n |-> n]

\* ------------------------------------------- external loaders, as called
\* <AutoClass>.from_pretrained(name, cache_dir=cache_dir): the weights of a
\* checkpoint, or the loader's error.
from_pretrained(self, cls, name, cache_dir) ==
    IF Raised(self) THEN self
    ELSE LET c == Call(cls \o ".from_pretrained", name, cache_dir, {}, 0)
         IN  IF Resolvable(ModelHub, name)
             THEN [self EXCEPT !.calls = Append(@, c),
                               !.model = [cls |-> cls, weights |-> "pretrained",
                                          source |-> name,
                                          cache_dir |-> cache_dir,
                                          rows |-> ModelHub[name.v]]]
             ELSE [self EXCEPT !.calls = Append(@, c),
                               !.error = ExternalError(c)]

\* AutoConfig.from_pretrained(name, cache_dir=cache_dir): config is a local of
\* init_model
AutoConfig_from_pretrained(self, name, cache_dir) ==
    IF Raised(self) THEN self
    ELSE LET c == Call("AutoConfig.from_pretrained", name, cache_dir, {}, 0)
         IN  IF Resolvable(ConfigHub, name)
             THEN [self EXCEPT !.calls = Append(@, c),
                               !.config = [source |-> name,
                                           vocab_size |-> ConfigHub[name.v]]]
             ELSE [self EXCEPT !.calls = Append(@, c),
                               !.error = ExternalError(c)]

\* <AutoClass>.from_config(config): a freshly initialised network
from_config(self, cls) ==
    IF Raised(self) THEN self
    ELSE [self EXCEPT
            !.calls = Append(@, Call(cls \o ".from_config", self.config.source,
                                     NotPassed, {}, 0)),
            !.model = [cls |-> cls, weights |-> "fresh",
                       source |-> self.config.source, cache_dir |-> NotPassed,
                       rows |-> self.config.vocab_size]]

\* logger.info(msg)
logger_info(self, msg) ==
    IF Raised(self) THEN self ELSE [self EXCEPT !.infos = Append(@, msg)]

\* the special tokens a tokenizer call passes by keyword
SpecialTokens(kwargs) ==
    {kv[2] : kv \in {x \in kwargs : x[1] \in {"sep_token", "pad_token"}}}
KwargOr(kwargs, key, default) ==
    IF \E kv \in kwargs : kv[1] = key
    THEN (CHOOSE kv \in kwargs : kv[1] = key)[2]
    ELSE default

\* AutoTokenizer.from_pretrained(name, **kwargs): a special token passed by
\* keyword becomes the tokenizer's token of that role and, when the base
\* vocabulary lacks it, is added to the vocabulary.
AutoTokenizer_from_pretrained(self, name, kwargs) ==
    IF Raised(self) THEN self
    ELSE LET c == Call("AutoTokenizer.from_pretrained", name, NotPassed,
                       kwargs, 0)
         IN  IF Resolvable(TokenizerHub, name)
             THEN LET base == TokenizerHub[name.v]
                  IN  [self EXCEPT
                         !.calls = Append(@, c),
                         !.tokenizer =
                            [source |-> name,
                             vocab |-> base.vocab \cup SpecialTokens(kwargs),
                             sep_token |-> KwargOr(kwargs, "sep_token",
                                                   base.sep_token),
                             pad_token |-> KwargOr(kwargs, "pad_token",
                                                   base.pad_token)]]
             ELSE [self EXCEPT !.calls = Append(@, c),
                               !.error = ExternalError(c)]

\* len(tokenizer)
len(tokenizer) == Cardinality(tokenizer.vocab)

\* self.model.resize_token_embeddings(n)
resize_token_embeddings(self, n) ==
    IF Raised(self) THEN self
    ELSE [self EXCEPT
            !.calls = Append(@, Call("resize_token_embeddings", None,
                                     NotPassed, {}, n)),
            !.model.rows = n]

\* ----------------------------------------------------- the module classes
Tags == {"lm", "mlm", "clm", "cgm", "plm"}

LM_MODULE_FACTORY ==
    [lm |-> "LMModule", mlm |-> "MLMModule", clm |-> "CLMModule",
     cgm |-> "CGMModule", plm |-> "PLMModule"]

\* mutant: the config name is consulted first
LoadNetwork_ConfigNameFirst(self, cls) ==
    IF self.model_args["model_config_name"] # None
    THEN logger_info(
           from_config(
             AutoConfig_from_pretrained(self,
                                        self.model_args["model_config_name"],
                                        self.cache_dir),
             cls),
           "Training from scratch")
    ELSE from_pretrained(self, cls, self.model_args["model_name_or_path"],
                         self.cache_dir)

\* The branch every init_model starts with: load the weights when a
\* pretrained identifier is given, else load the configuration by name,
\* initialise a fresh network from it and log.
LoadNetwork(self, cls) ==
    IF self.model_args["model_name_or_path"] # None
    THEN from_pretrained(self, cls, self.model_args["model_name_or_path"],
                         self.cache_dir)
    ELSE logger_info(
           from_config(
             AutoConfig_from_pretrained(self,
                                        self.model_args["model_config_name"],
                                        self.cache_dir),
             cls),
           "Training from scratch")

\* mutant: a failed tokenizer load is tried once more
LoadTokenizerAndResize_Retry(self, kwargs) ==
    LET t1 == AutoTokenizer_from_pretrained(self, self.model_args["tokenizer"],
                                            kwargs)
        t == IF ~Raised(self) /\ Raised(t1)
             THEN AutoTokenizer_from_pretrained(
                    [t1 EXCEPT !.error = NoError],
                    self.model_args["tokenizer"], kwargs)
             ELSE t1
    IN  resize_token_embeddings(t, len(t.tokenizer))

\* The tail of the tokenizer-bearing init_model methods: load the tokenizer,
\* then resize the embeddings to its length.
LoadTokenizerAndResize(self, kwargs) ==
    LET t == AutoTokenizer_from_pretrained(self, self.model_args["tokenizer"],
                                           kwargs)
    IN  resize_token_embeddings(t, len(t.tokenizer))

\* mutant: the plain variant loads a tokenizer and resizes, as its subclasses do
LMModule_init_model_WithTokenizer(self) ==
    LoadTokenizerAndResize(LoadNetwork(self, "AutoModel"),
                           {<<"use_fast", "False">>})

LMModule_init_model(self) == LoadNetwork(self, "AutoModel")

MLMModule_init_model(self) ==
    LoadTokenizerAndResize(LoadNetwork(self, "AutoModelForMaskedLM"),
                           {<<"use_fast", "False">>})

CGMModule_init_model(self) ==
    LoadTokenizerAndResize(LoadNetwork(self, "AutoModelForSeq2SeqLM"),
                           {<<"use_fast", "False">>})

\* mutant: the causal-LM tokenizer is loaded as the other variants load theirs
CLMModule_init_model_NoSpecialTokens(self) ==
    LoadTokenizerAndResize(LoadNetwork(self, "AutoModelForCausalLM"),
                           {<<"use_fast", "False">>})

CLMModule_init_model(self) ==
    LoadTokenizerAndResize(LoadNetwork(self, "AutoModelForCausalLM"),
                           {<<"sep_token", "<|sep|>">>,
                            <<"pad_token", "<|pad|>">>,
                            <<"use_fast", "False">>})

\* mutant: the embeddings are not resized
PLMModule_init_model_NoResize(self) ==
    AutoTokenizer_from_pretrained(LoadNetwork(self, "XLNetLMHeadModel"),
                                  self.model_args["tokenizer"],
                                  {<<"use_fast", "False">>})

PLMModule_init_model(self) ==
    LoadTokenizerAndResize(LoadNetwork(self, "XLNetLMHeadModel"),
                           {<<"use_fast", "False">>})

\* self.init_model(), dispatched on the class of self
init_model(self) ==
    CASE self.cls = "LMModule" -> LMModule_init_model(self)
      [] self.cls = "MLMModule" -> MLMModule_init_model(self)
      [] self.cls = "CGMModule" -> CGMModule_init_model(self)
      [] self.cls = "CLMModule" -> CLMModule_init_model(self)
      [] self.cls = "PLMModule" -> PLMModule_init_model(self)

\* BaseLightningModule.__init__: keeps the configuration, nothing else
BaseLightningModule_init(cls, model_args) ==
    [NoModule EXCEPT !.cls = cls, !.model_args = model_args]

\* mutant: an error of init_model is caught and dropped
LMModule_init_SwallowsError(cls, model_args) ==
    LET base == BaseLightningModule_init(cls, model_args)
        withCache == [base EXCEPT !.cache_dir =
                         IF "cache_dir" \in DOMAIN model_args
                         THEN model_args["cache_dir"]
                         ELSE None]
    IN  [init_model(withCache) EXCEPT !.error = NoError]

\* LMModule.__init__, inherited unchanged by the four subclasses
LMModule_init(cls, model_args) ==
    LET base == BaseLightningModule_init(cls, model_args)
        withCache == [base EXCEPT !.cache_dir =
                         IF "cache_dir" \in DOMAIN model_args
                         THEN model_args["cache_dir"]
                         ELSE None]
    IN  init_model(withCache)

\* --------------------------------------------------------------- the hooks
\* The wrapped network's output for an input: logits over its vocabulary and
\* the loss it computes (an external computation, a function of the network
\* and the batch).
ModelOutput(model, batch) ==
    [logits |-> [input |-> batch.input_ids, vocab |-> model.rows],
     loss |-> (batch.input_ids * 7 + model.rows) % 5]

\* self.parameters(): the parameters of the wrapped network
parameters(self) ==
    {[of |-> self.model.cls, name |-> "embeddings", rows |-> self.model.rows],
     [of |-> self.model.cls, name |-> "body", rows |-> 0]}

forward(self, x) == ModelOutput(self.model, x).logits

\* training_step / validation_step: what is logged and what is returned
training_step(self, batch) ==
    LET loss == ModelOutput(self.model, batch).loss
    IN  [log |-> [name |-> "train_loss", value |-> loss], ret |-> loss]

\* mutant: the validation loss is logged under the training metric's name
validation_step_LogsTrainLoss(self, batch) ==
    LET loss == ModelOutput(self.model, batch).loss
    IN  [log |-> [name |-> "train_loss", value |-> loss], ret |-> loss]

validation_step(self, batch) ==
    LET loss == ModelOutput(self.model, batch).loss
    IN  [log |-> [name |-> "val_loss", value |-> loss], ret |-> loss]

\* mutant: the learning rate is passed where the decay is
BuildOptimizers_GammaFromLr(self, id) ==
    LET optimizer == [id |-> id, cls |-> "AdamW",
                      params |-> parameters(self),
                      lr |-> self.model_args["lr"],
                      weight_decay |-> self.model_args["weight_decay"]]
        scheduler == [id |-> id + 1, cls |-> "StepLR",
                      optimizer |-> optimizer.id, step_size |-> 1,
                      gamma |-> self.model_args["lr"]]
    IN  [error |-> NoError,
         built |-> <<optimizer, scheduler>>,
         ret |-> [optimizer |-> optimizer, lr_scheduler |-> scheduler,
                  monitor |-> "val_loss"]]

\* The part of configure_optimizers after the two checks: AdamW over
\* self.parameters(), StepLR(optimizer, 1, lr_decay), and the returned dict.
\* `id` is the identity of the next object created.
BuildOptimizers(self, id) ==
    LET optimizer == [id |-> id, cls |-> "AdamW",
                      params |-> parameters(self),
                      lr |-> self.model_args["lr"],
                      weight_decay |-> self.model_args["weight_decay"]]
        scheduler == [id |-> id + 1, cls |-> "StepLR",
                      optimizer |-> optimizer.id, step_size |-> 1,
                      gamma |-> self.model_args["lr_decay"]]
    IN  [error |-> NoError,
         built |-> <<optimizer, scheduler>>,
         ret |-> [optimizer |-> optimizer, lr_scheduler |-> scheduler,
                  monitor |-> "val_loss"]]

\* what a call that raises leaves: the error, nothing built, nothing returned
Raise(error) == [error |-> error, built |-> <<>>, ret |-> <<>>]

\* mutant: the learning rate is not checked
configure_optimizers_NoLrCheck(self, id) ==
    IF ~isinstance_float(self.model_args["lr_decay"])
    THEN Raise(ValueError("Learning rate decay rate should be float"))
    ELSE BuildOptimizers(self, id)

\* mutant: the decay is checked before the learning rate
configure_optimizers_DecayFirst(self, id) ==
    IF ~isinstance_float(self.model_args["lr_decay"])
    THEN Raise(ValueError("Learning rate decay rate should be float"))
    ELSE IF ~isinstance_float(self.model_args["lr"])
    THEN Raise(ValueError("Learning rate should be float"))
    ELSE BuildOptimizers(self, id)

configure_optimizers(self, id) ==
    IF ~isinstance_float(self.model_args["lr"])
    THEN Raise(ValueError("Learning rate should be float"))
    ELSE IF ~isinstance_float(self.model_args["lr_decay"])
    THEN Raise(ValueError("Learning rate decay rate should be float"))
    ELSE BuildOptimizers(self, id)

\* ------------------------------------------------------------------ inputs
ModelNames == {None, PyStr("m3"), PyStr("m6"), PyStr("missing")}
ConfigNames == {None, PyStr("c4"), PyStr("missing")}
TokenizerNames == {PyStr("t3"), PyStr("t5"), PyStr("missing")}
CacheDirs == {None, PyStr("/cache")}
LearningRates == {PyFloat("1.0"), PyInt("1")}
Decays == {PyFloat("0.5"), PyInt("1")}
WeightDecays == {PyFloat("0.01"), PyInt("0")}
\* Configurations that vary what construction reads (the three identifiers),
\* with valid optimizer settings, and configurations that vary what
\* configure_optimizers reads, with identifiers that resolve.
ArgsNoCache ==
    [model_name_or_path : ModelNames, model_config_name : ConfigNames,
     tokenizer : TokenizerNames, lr : {PyFloat("1.0")},
     lr_decay : {PyFloat("0.5")}, weight_decay : {PyFloat("0.01")}]
    \cup
    [model_name_or_path : {PyStr("m6")}, model_config_name : {None},
     tokenizer : {PyStr("t3")}, lr : LearningRates, lr_decay : Decays,
     weight_decay : WeightDecays]
\* The same configurations with a cache_dir key.
ArgsWithCache ==
    [model_name_or_path : ModelNames, model_config_name : ConfigNames,
     tokenizer : TokenizerNames, lr : {PyFloat("1.0")},
     lr_decay : {PyFloat("0.5")}, weight_decay : {PyFloat("0.01")},
     cache_dir : CacheDirs]
Batches == {[input_ids |-> 1], [input_ids |-> 2]}

\* ------------------------------------------------------------------- state
VARIABLES
    phase,    \* "new" before the factory is called; then "ready" when
              \* __init__ returned and the caller holds the module, "failed"
              \* when __init__ raised and the caller holds nothing
    tag,      \* the task tag the factory was called with
    self,     \* the object __init__ worked on, with the loader calls it made
    metrics,  \* the self.log calls made so far, in order
    built,    \* the optimizer and scheduler objects constructed so far
    last      \* the last call: its operation, input, raised error, result

vars == <<phase, tag, self, metrics, built, last>>

Init ==
    /\ phase = "new"
    /\ tag = ""
    /\ self = NoModule
    /\ metrics = <<>>
    /\ built = <<>>
    /\ last = [op |-> "", input |-> <<>>, error |-> NoError, ret |-> <<>>]

\* LM_MODULE_FACTORY[t](model_args)
Construct(t, model_args) ==
    /\ phase = "new"
    /\ LET r == LMModule_init(LM_MODULE_FACTORY[t], model_args)
       IN  /\ self' = r
           /\ phase' = IF Raised(r) THEN "failed" ELSE "ready"
           /\ last' = [op |-> "construct", input |-> <<>>,
                       error |-> r.error, ret |-> <<>>]
    /\ tag' = t
    /\ UNCHANGED <<metrics, built>>

ConstructNoCache == \E t \in Tags, a \in ArgsNoCache : Construct(t, a)
ConstructWithCache == \E t \in Tags, a \in ArgsWithCache : Construct(t, a)

Forward ==
    /\ phase = "ready"
    /\ \E x \in Batches :
          last' = [op |-> "forward", input |-> x, error |-> NoError,
                   ret |-> forward(self, x)]
    /\ UNCHANGED <<phase, tag, self, metrics, built>>

TrainingStep ==
    /\ phase = "ready"
    /\ Len(metrics) < MaxSteps
    /\ \E batch \in Batches :
          LET out == training_step(self, batch)
          IN  /\ metrics' = Append(metrics, [hook |-> "training_step",
                                             name |-> out.log.name,
                                             value |-> out.log.value])
              /\ last' = [op |-> "training_step", input |-> batch,
                          error |-> NoError, ret |-> out.ret]
    /\ UNCHANGED <<phase, tag, self, built>>

ValidationStep ==
    /\ phase = "ready"
    /\ Len(metrics) < MaxSteps
    /\ \E batch \in Batches :
          LET out == validation_step(self, batch)
          IN  /\ metrics' = Append(metrics, [hook |-> "validation_step",
                                             name |-> out.log.name,
                                             value |-> out.log.value])
              /\ last' = [op |-> "validation_step", input |-> batch,
                          error |-> NoError, ret |-> out.ret]
    /\ UNCHANGED <<phase, tag, self, built>>

ConfigureOptimizers ==
    /\ phase = "ready"
    /\ Len(built) < 2 * MaxOptimizerCalls
    /\ LET out == configure_optimizers(self, Len(built) + 1)
       IN  /\ built' = built \o out.built
           /\ last' = [op |-> "configure_optimizers", input |-> <<>>,
                       error |-> out.error, ret |-> out.ret]
    /\ UNCHANGED <<phase, tag, self, metrics>>

Next ==
    \/ ConstructNoCache
    \/ ConstructWithCache
    \/ Forward
    \/ TrainingStep
    \/ ValidationStep
    \/ ConfigureOptimizers

Spec == Init /\ [][Next]_vars

\* ================================================================== claims
Constructed == phase # "new"
Ready == phase = "ready"
TokenizerTags == {"mlm", "clm", "cgm", "plm"}
\* the cache directory a loader must be given: the cache_dir key's value,
\* None when the configuration has no such key
ConfiguredCacheDir ==
    IF "cache_dir" \in DOMAIN self.model_args
    THEN self.model_args["cache_dir"]
    ELSE None
LrIsFloat == self.model_args["lr"].t = "float"
DecayIsFloat == self.model_args["lr_decay"].t = "float"
CallsOf(fns) == {i \in 1..Len(self.calls) : self.calls[i].fn \in fns}
WeightLoads == {"AutoModel.from_pretrained",
                "AutoModelForMaskedLM.from_pretrained",
                "AutoModelForSeq2SeqLM.from_pretrained",
                "AutoModelForCausalLM.from_pretrained",
                "XLNetLMHeadModel.from_pretrained"}
ConfigLoads == {"AutoConfig.from_pretrained"}
FreshInits == {"AutoModel.from_config", "AutoModelForMaskedLM.from_config",
               "AutoModelForSeq2SeqLM.from_config",
               "AutoModelForCausalLM.from_config",
               "XLNetLMHeadModel.from_config"}
TokenizerLoads == {"AutoTokenizer.from_pretrained"}
Resizes == {"resize_token_embeddings"}

\* C1 (as stated): constructing a module with a learning rate that is not a
\* float raises a validation error.
C1_ConstructionRejectsNonFloatLr ==
    (Constructed /\ ~LrIsFloat)
        => (phase = "failed" /\ self.error.type = "ValueError")

\* C1 (amended): construction never raises the validation error, whatever the
\* learning rate is; with a learning rate that is not a float it is
\* configure_optimizers that raises "Learning rate should be float", and no
\* optimizer or scheduler has been built when it does.
C1_NonFloatLrRejectedByConfigureOptimizers ==
    /\ Constructed => self.error.type # "ValueError"
    /\ (last.op = "configure_optimizers" /\ ~LrIsFloat)
          => /\ last.error = ValueError("Learning rate should be float")
             /\ built = <<>>

C1_Witness ==
    /\ last.op = "configure_optimizers"
    /\ self.model_args["lr"] = PyInt("1")
    /\ last.error.type = "ValueError"

\* C2: configure_optimizers raises the validation error when the learning
\* rate or the decay is not a float, and then builds and returns nothing; the
\* learning rate is checked first; with both floats it raises no validation
\* error, whatever the weight decay is.
C2_ConfigureOptimizersValidation ==
    last.op = "configure_optimizers" =>
        /\ ~LrIsFloat
              => last.error = ValueError("Learning rate should be float")
        /\ (LrIsFloat /\ ~DecayIsFloat)
              => last.error =
                    ValueError("Learning rate decay rate should be float")
        /\ (~LrIsFloat \/ ~DecayIsFloat)
              => (built = <<>> /\ last.ret = <<>>)
        /\ (LrIsFloat /\ DecayIsFloat) => last.error.type # "ValueError"

C2_Witness ==
    /\ last.op = "configure_optimizers"
    /\ ~LrIsFloat
    /\ ~DecayIsFloat
    /\ last.error = ValueError("Learning rate should be float")

\* C3: in every state after a successful construction of a tokenizer-bearing
\* variant, the network's embedding table has as many rows as the tokenizer has
\* tokens, on the pretrained and on the from-scratch branch, whatever hooks
\* have run since.
C3_EmbeddingRowsEqualVocabulary ==
    (Ready /\ tag \in TokenizerTags)
        => /\ self.tokenizer # NoTokenizer
           /\ self.model.rows = Cardinality(self.tokenizer.vocab)

\* a from-scratch network of 4 rows, resized, and hooks have run since
C3_Witness ==
    /\ Ready
    /\ tag \in TokenizerTags
    /\ self.model.weights = "fresh"
    /\ self.model.rows # ConfigHub[self.model.source.v]
    /\ Len(metrics) > 0
    /\ last.op = "configure_optimizers"

\* C4: the tokenizer of a constructed causal-LM module holds a separator and
\* a padding token even when the base tokenizer lacks them; they are passed to
\* the tokenizer load, which precedes the resize, so the resized table counts
\* them; no other variant passes any special token.
C4_CausalLmSpecialTokens ==
    /\ (Ready /\ tag = "clm") =>
          LET base == TokenizerHub[self.model_args["tokenizer"].v]
          IN  /\ self.tokenizer.sep_token = "<|sep|>"
              /\ self.tokenizer.pad_token = "<|pad|>"
              /\ {"<|sep|>", "<|pad|>"} \subseteq self.tokenizer.vocab
              /\ self.model.rows =
                    Cardinality(base.vocab \cup {"<|sep|>", "<|pad|>"})
              /\ \A i \in CallsOf(TokenizerLoads), j \in CallsOf(Resizes) :
                    /\ i < j
                    /\ {<<"sep_token", "<|sep|>">>, <<"pad_token", "<|pad|>">>}
                          \subseteq self.calls[i].kwargs
                    /\ self.calls[j].n = Cardinality(self.tokenizer.vocab)
    /\ (Constructed /\ tag # "clm") =>
          /\ \A i \in CallsOf(TokenizerLoads) :
                \A kv \in self.calls[i].kwargs :
                    kv[1] \notin {"sep_token", "pad_token"}
          /\ (Ready /\ tag # "lm") =>
                LET base == TokenizerHub[self.model_args["tokenizer"].v]
                IN  /\ self.tokenizer.vocab = base.vocab
                    /\ self.tokenizer.sep_token = base.sep_token
                    /\ self.tokenizer.pad_token = base.pad_token
          /\ tag = "lm" => self.tokenizer = NoTokenizer

\* a causal-LM module over t3, which has neither token: 3 + 2 rows
C4_Witness ==
    /\ Ready
    /\ tag = "clm"
    /\ self.model_args["tokenizer"] = PyStr("t3")
    /\ self.model.rows = 5

\* the class each tag loads its network with
NetworkClass ==
    [lm |-> "AutoModel", mlm |-> "AutoModelForMaskedLM",
     clm |-> "AutoModelForCausalLM", cgm |-> "AutoModelForSeq2SeqLM",
     plm |-> "XLNetLMHeadModel"]

\* C5: the pretrained identifier alone decides the branch.  When it is not
\* None the first call loads the weights from it with the configured cache
\* directory (None without a cache_dir key), no configuration is loaded by name
\* and nothing is logged, also when a config name is given.  Otherwise no
\* weights are loaded: the configuration is loaded by config name with that
\* cache directory, and once it is loaded the network is initialised fresh
\* from it and "Training from scratch" is logged exactly once.
C5_BranchOnPretrainedIdentifier ==
    Constructed =>
        LET name == self.model_args["model_name_or_path"]
            first == self.calls[1]
        IN  /\ Len(self.calls) >= 1
            /\ name # None =>
                  /\ first.fn = NetworkClass[tag] \o ".from_pretrained"
                  /\ first.arg = name
                  /\ first.cache_dir = ConfiguredCacheDir
                  /\ CallsOf(ConfigLoads \cup FreshInits) = {}
                  /\ self.infos = <<>>
                  /\ self.config = NoConfig
                  /\ Ready => /\ self.model.weights = "pretrained"
                              /\ self.model.source = name
            /\ name = None =>
                  /\ first.fn = "AutoConfig.from_pretrained"
                  /\ first.arg = self.model_args["model_config_name"]
                  /\ first.cache_dir = ConfiguredCacheDir
                  /\ CallsOf(WeightLoads) = {}
                  /\ CallsOf(ConfigLoads) = {1}
                  /\ IF self.config # NoConfig
                     THEN /\ self.calls[2].fn =
                                NetworkClass[tag] \o ".from_config"
                          /\ CallsOf(FreshInits) = {2}
                          /\ self.model.weights = "fresh"
                          /\ self.model.source =
                                self.model_args["model_config_name"]
                          /\ self.infos = <<"Training from scratch">>
                     ELSE /\ self.infos = <<>>
                          /\ self.model = NoModel

\* both a pretrained identifier and a config name, no cache_dir key
C5_Witness ==
    /\ Ready
    /\ self.model_args["model_name_or_path"] = PyStr("m6")
    /\ self.model_args["model_config_name"] = PyStr("c4")
    /\ "cache_dir" \notin DOMAIN self.model_args
    /\ self.calls[1].cache_dir = None
    /\ self.model.weights = "pretrained"

\* C6: construction with neither a pretrained identifier nor a config name
\* ends in an error, and the caller gets no module; no network was created.
C6_NeitherIdentifierFails ==
    (/\ Constructed
     /\ self.model_args["model_name_or_path"] = None
     /\ self.model_args["model_config_name"] = None)
        => /\ phase = "failed"
           /\ last.error # NoError
           /\ self.model = NoModel

C6_Witness ==
    /\ phase = "failed"
    /\ last.op = "construct"
    /\ self.model_args["model_name_or_path"] = None
    /\ self.model_args["model_config_name"] = None

\* the identities of the optimizer and scheduler objects built so far
BuiltIds == {built[i].id : i \in 1..Len(built)}

\* C7: a configure_optimizers call on a module whose learning rate and decay
\* are floats returns exactly the keys optimizer, lr_scheduler and monitor;
\* monitor is "val_loss"; the optimizer is an AdamW over the module's
\* parameters with the configured learning rate and weight decay; the
\* scheduler is a StepLR on that optimizer with step size 1 and the configured
\* decay as factor; both objects are new ones; the module is left as it was.
C7_ConfigureOptimizersResult ==
    [][(/\ last'.op = "configure_optimizers"
        /\ LrIsFloat
        /\ DecayIsFloat)
       => LET out == last'.ret
          IN  /\ last'.error = NoError
              /\ DOMAIN out = {"optimizer", "lr_scheduler", "monitor"}
              /\ out.monitor = "val_loss"
              /\ out.optimizer.cls = "AdamW"
              /\ out.optimizer.params = parameters(self)
              /\ out.optimizer.lr = self.model_args["lr"]
              /\ out.optimizer.weight_decay = self.model_args["weight_decay"]
              /\ out.lr_scheduler.cls = "StepLR"
              /\ out.lr_scheduler.optimizer = out.optimizer.id
              /\ out.lr_scheduler.step_size = 1
              /\ out.lr_scheduler.gamma = self.model_args["lr_decay"]
              /\ out.optimizer.id # out.lr_scheduler.id
              /\ {out.optimizer.id, out.lr_scheduler.id} \cap BuiltIds = {}
              /\ built' = built \o <<out.optimizer, out.lr_scheduler>>
              /\ self' = self
              /\ phase' = phase
              /\ metrics' = metrics]_vars

\* a second pair has been built, with an integer weight decay
C7_Witness ==
    /\ last.op = "configure_optimizers"
    /\ last.error = NoError
    /\ Len(built) = 4
    /\ built[3].id \notin {built[1].id, built[2].id}
    /\ built[4].optimizer = built[3].id
    /\ self.model_args["weight_decay"] = PyInt("0")

\* C8: a training_step call records exactly one metric, "train_loss", and a
\* validation_step call exactly one, "val_loss"; the value recorded and the
\* value returned are the loss the network computes for the batch of the call;
\* the name validation_step records under is the monitor configure_optimizers
\* returns.
C8_StepMetrics ==
    [][/\ last'.op = "training_step" =>
            /\ Len(metrics') = Len(metrics) + 1
            /\ SubSeq(metrics', 1, Len(metrics)) = metrics
            /\ metrics'[Len(metrics')].name = "train_loss"
            /\ metrics'[Len(metrics')].value = last'.ret
            /\ last'.ret = ModelOutput(self.model, last'.input).loss
       /\ last'.op = "validation_step" =>
            /\ Len(metrics') = Len(metrics) + 1
            /\ SubSeq(metrics', 1, Len(metrics)) = metrics
            /\ metrics'[Len(metrics')].name = "val_loss"
            /\ metrics'[Len(metrics')].value = last'.ret
            /\ last'.ret = ModelOutput(self.model, last'.input).loss
       /\ last'.op \notin {"training_step", "validation_step"} =>
            metrics' = metrics
       /\ (last'.op = "configure_optimizers" /\ last'.error = NoError) =>
            \A i \in 1..Len(metrics) :
                metrics[i].hook = "validation_step"
                    => metrics[i].name = last'.ret.monitor]_vars

\* a training and a validation step on different batches, then the optimizer
C8_Witness ==
    /\ Len(metrics) = 2
    /\ metrics[1].hook = "training_step"
    /\ metrics[2].hook = "validation_step"
    /\ metrics[1].value # metrics[2].value
    /\ last.op = "configure_optimizers"
    /\ last.error = NoError

\* C9: the factory maps exactly the five tags, each to its own class; a
\* constructed module is of the class of its tag and owns one network, created
\* by the one network-creating call of its construction; it owns a tokenizer,
\* loaded by one call, exactly when its tag is not lm; the construction of the
\* plain variant calls neither the tokenizer loader nor the resize.
C9_FactoryAndOwnership ==
    /\ DOMAIN LM_MODULE_FACTORY = Tags
    /\ Cardinality(Tags) = 5
    /\ \A a, b \in Tags :
          LM_MODULE_FACTORY[a] = LM_MODULE_FACTORY[b] => a = b
    /\ Constructed =>
          /\ self.cls = LM_MODULE_FACTORY[tag]
          /\ tag = "lm" => CallsOf(TokenizerLoads \cup Resizes) = {}
    /\ Ready =>
          /\ self.model # NoModel
          /\ self.model.cls = NetworkClass[tag]
          /\ Cardinality(CallsOf(WeightLoads \cup FreshInits)) = 1
          /\ (tag # "lm") <=> (self.tokenizer # NoTokenizer)
          /\ Cardinality(CallsOf(TokenizerLoads)) =
                (IF tag = "lm" THEN 0 ELSE 1)
          /\ Cardinality(CallsOf(Resizes)) = (IF tag = "lm" THEN 0 ELSE 1)

\* the plain variant right after construction, its tokenizer name unresolvable
C9_Witness ==
    /\ Ready
    /\ tag = "lm"
    /\ last.op = "construct"
    /\ self.model_args["tokenizer"] = PyStr("missing")
    /\ self.tokenizer = NoTokenizer

\* the step of construction a loader call belongs to
StepOf(call) ==
    IF call.fn \in WeightLoads \cup ConfigLoads \cup FreshInits THEN 1
    ELSE IF call.fn \in TokenizerLoads THEN 2
    ELSE 3

\* C10: the construction of a tokenizer-bearing variant calls the loaders in
\* the order network, tokenizer, resize, none of them twice; a loader's error
\* reaches the caller as raised, the failing call is the last call made, and
\* the caller gets no module: after a failed network load there is no
\* tokenizer, after a failed tokenizer load the embeddings are not resized.
C10_ConstructionOrderAndFailure ==
    (Constructed /\ tag \in TokenizerTags) =>
        LET n == Len(self.calls)
        IN  /\ \A i, j \in 1..n : i < j =>
                  /\ StepOf(self.calls[i]) <= StepOf(self.calls[j])
                  /\ self.calls[i].fn # self.calls[j].fn
            /\ Ready =>
                  /\ ~Raised(self)
                  /\ StepOf(self.calls[n]) = 3
                  /\ StepOf(self.calls[n - 1]) = 2
                  /\ StepOf(self.calls[n - 2]) = 1
            /\ Raised(self) =>
                  /\ phase = "failed"
                  /\ self.error = ExternalError(self.calls[n])
                  /\ last.op = "construct"
                  /\ last.error = self.error
                  /\ StepOf(self.calls[n]) = 1 =>
                        /\ self.model = NoModel
                        /\ self.tokenizer = NoTokenizer
                        /\ CallsOf(TokenizerLoads \cup Resizes) = {}
                  /\ StepOf(self.calls[n]) = 2 =>
                        /\ self.tokenizer = NoTokenizer
                        /\ CallsOf(Resizes) = {}
                        /\ self.model.rows =
                              (IF self.model.weights = "pretrained"
                               THEN ModelHub[self.model.source.v]
                               ELSE ConfigHub[self.model.source.v])
            /\ phase = "failed" <=> Raised(self)

\* the network was loaded, then the tokenizer load failed
C10_Witness ==
    /\ phase = "failed"
    /\ tag \in TokenizerTags
    /\ self.model # NoModel
    /\ self.error.origin = "AutoTokenizer.from_pretrained"
    /\ last.error = self.error

====
